---- MODULE Spec2Model ----
(***************************************************************************)
(* Model of src/task_1.py: the asynchronous file sorter.                   *)
(*                                                                         *)
(* One producer (read_folder, running inside main) walks the source tree   *)
(* with os.walk and puts every file on a bounded asyncio.Queue; N consumer *)
(* tasks take paths from the queue and copy each file into                 *)
(* <out_root>/<ext_bucket>/<name>.  Everything runs on one asyncio event   *)
(* loop: a task runs until it awaits something that is not ready, and the  *)
(* loop then runs the next task of its FIFO ready list.  Directory         *)
(* creation and copying run in executor threads, which finish at times     *)
(* the loop does not control.                                              *)
(*                                                                         *)
(* A name is a sequence of one-character strings, a path a sequence of     *)
(* names from the filesystem root.                                         *)
(***************************************************************************)
EXTENDS Naturals, Integers, Sequences, FiniteSets

\* Largest --workers and --queue-size argument values explored.
MaxWorkers == 3
MaxQueue == 3

----------------------------------------------------------------------------
\* Names used by the explored trees.

UpperCase == <<"A","B","C","D","E","F","G","H","I","J","K","L","M",
               "N","O","P","Q","R","S","T","U","V","W","X","Y","Z">>
LowerCase == <<"a","b","c","d","e","f","g","h","i","j","k","l","m",
               "n","o","p","q","r","s","t","u","v","w","x","y","z">>

nS == <<"s">>
nD == <<"d">>
nU == <<"u">>
nO == <<"o">>
nL == <<"l">>
nTxt == <<"t","x","t">>
nNoExt == <<"n","o","_","e","x","t">>
nATXT == <<"a",".","T","X","T">>
nB == <<"b">>
nNotes == <<"n","o","t","e","s",".","t","x","t">>
nOld == <<"o","l","d",".","t","x","t">>
nLoop == <<"l","o","o","p">>

----------------------------------------------------------------------------
\* Strings and paths.

\* str.lower() on one character.
LowerChar(c) ==
    IF \E i \in 1..Len(UpperCase) : UpperCase[i] = c
    THEN LowerCase[CHOOSE i \in 1..Len(UpperCase) : UpperCase[i] = c]
    ELSE c

\* str.lower().
Lower(s) == [i \in 1..Len(s) |-> LowerChar(s[i])]

\* PurePath.suffix: the text from the last dot of the name on, when that dot
\* is neither the first nor the last character; otherwise empty.
Suffix(name) ==
    LET dots == {i \in 1..Len(name) : name[i] = "."}
    IN  IF dots = {} THEN <<>>
        ELSE LET i == CHOOSE k \in dots : \A j \in dots : j <= k
             IN  IF 1 < i /\ i < Len(name) THEN SubSeq(name, i, Len(name))
                 ELSE <<>>

\* A variant of ext_bucket that forgets .lower().
ext_bucket_nolower(name) ==
    LET ext == SubSeq(Suffix(name), 2, Len(Suffix(name)))
    IN  IF ext # <<>> THEN ext ELSE nNoExt

\* ext_bucket(p): p.suffix[1:].lower(), or "no_ext" when that is empty.
ext_bucket(name) ==
    LET ext == Lower(SubSeq(Suffix(name), 2, Len(Suffix(name))))
    IN  IF ext # <<>> THEN ext ELSE nNoExt

\* Path.name and Path.parent.
Name(p) == p[Len(p)]
Parent(p) == SubSeq(p, 1, Len(p) - 1)

\* a is b or an ancestor of b, as sequences of names.
IsPrefix(a, b) == Len(a) <= Len(b) /\ SubSeq(b, 1, Len(a)) = a

----------------------------------------------------------------------------
\* The filesystem: an ordered list of entries.  kind is "dir", "file" or
\* "link"; content identifies a file's bytes; target is a link's target;
\* readable is the read permission of a file.

DirEntry(p) ==
    [path |-> p, kind |-> "dir", content |-> 0, target |-> <<>>, readable |-> TRUE]
FileEntry(p, c) ==
    [path |-> p, kind |-> "file", content |-> c, target |-> <<>>, readable |-> TRUE]
LockedFileEntry(p, c) ==
    [path |-> p, kind |-> "file", content |-> c, target |-> <<>>, readable |-> FALSE]
LinkEntry(p, t) ==
    [path |-> p, kind |-> "link", content |-> 0, target |-> t, readable |-> TRUE]

Range(s) == {s[i] : i \in 1..Len(s)}

Exists(t, p) == \E e \in Range(t) : e.path = p
EntryAt(t, p) == CHOOSE e \in Range(t) : e.path = p
KindAt(t, p) == IF Exists(t, p) THEN EntryAt(t, p).kind ELSE "none"

\* A symbolic link that leads back to itself.
IsLoop(t, p) == KindAt(t, p) = "link" /\ EntryAt(t, p).target = p

\* The canonical form of p: every symbolic link on the way replaced by what
\* it points to; components that do not exist are kept as they are.
RECURSIVE Canon(_, _)
Canon(t, p) ==
    IF p = <<>> THEN <<>>
    ELSE LET c == Append(Canon(t, Parent(p)), Name(p))
         IN  IF KindAt(t, c) = "link" /\ ~IsLoop(t, c)
             THEN Canon(t, EntryAt(t, c).target)
             ELSE c

\* p leads through a symbolic link loop.
RECURSIVE HasLoop(_, _)
HasLoop(t, p) ==
    IF p = <<>> THEN FALSE
    ELSE HasLoop(t, Parent(p))
         \/ IsLoop(t, Append(Canon(t, Parent(p)), Name(p)))

\* os.path.isdir / DirEntry.is_dir(): follows symbolic links.
IsDir(t, p) == KindAt(t, Canon(t, p)) = "dir"
\* os.path.islink.
IsLink(t, p) == KindAt(t, Append(Canon(t, Parent(p)), Name(p))) = "link"


\* os.scandir(top) as os.walk uses it: the entries of the directory, in
\* listing order.
Listing(t, top) == SelectSeq(t, LAMBDA e : Parent(e.path) = Canon(t, top))

\* os.walk's split of one listing: names of directories (symbolic links to
\* directories included) and names of everything else.
WalkDirNames(t, top) ==
    LET ds == SelectSeq(Listing(t, top), LAMBDA e : IsDir(t, e.path))
    IN  [i \in 1..Len(ds) |-> Name(ds[i].path)]
WalkFileNames(t, top) ==
    LET fs == SelectSeq(Listing(t, top), LAMBDA e : ~IsDir(t, e.path))
    IN  [i \in 1..Len(fs) |-> Name(fs[i].path)]

\* Path.mkdir(parents=True, exist_ok=True) fails when the path, or one of
\* its parents, exists and is not a directory.
RECURSIVE MkdirFails(_, _)
MkdirFails(t, p) ==
    IF p = <<>> \/ IsDir(t, p) THEN FALSE
    ELSE Exists(t, Append(Canon(t, Parent(p)), Name(p))) \/ MkdirFails(t, Parent(p))

\* The tree after a successful mkdir(parents=True, exist_ok=True).
RECURSIVE MkdirTree(_, _)
MkdirTree(t, p) ==
    IF p = <<>> \/ IsDir(t, p) THEN t
    ELSE LET t1 == MkdirTree(t, Parent(p))
         IN  Append(t1, DirEntry(Append(Canon(t1, Parent(p)), Name(p))))

\* Where shutil.copy2(src, dst) writes: into dst, or into dst/<name of src>
\* when dst is a directory.
CopyTarget(t, src, dst) ==
    IF IsDir(t, dst) THEN Append(Canon(t, dst), Name(src)) ELSE Canon(t, dst)

\* The outcome of shutil.copy2(src, dst): "perm" (PermissionError), "err"
\* (another OSError) or "ok".
CopyResult(t, src, dst) ==
    IF HasLoop(t, src) \/ HasLoop(t, dst) THEN "err"
    ELSE IF KindAt(t, Canon(t, src)) # "file" THEN "err"
    ELSE IF ~EntryAt(t, Canon(t, src)).readable THEN "perm"
    ELSE IF ~IsDir(t, Parent(CopyTarget(t, src, dst))) THEN "err"
    ELSE IF KindAt(t, CopyTarget(t, src, dst)) = "dir" THEN "err"
    ELSE "ok"

\* A copy that leaves an existing target alone.
CopyTreeKeepFirst(t, src, dst) ==
    LET tgt == CopyTarget(t, src, dst)
    IN  IF Exists(t, tgt)
        THEN t
        ELSE Append(t, FileEntry(tgt, EntryAt(t, Canon(t, src)).content))

\* A copy that opens an existing target for appending: the target grows by
\* the source's bytes.
CopyTreeAppend(t, src, dst) ==
    LET tgt == CopyTarget(t, src, dst)
        c == EntryAt(t, Canon(t, src)).content
    IN  IF Exists(t, tgt)
        THEN [i \in 1..Len(t) |->
                IF t[i].path = tgt THEN FileEntry(tgt, t[i].content + c) ELSE t[i]]
        ELSE Append(t, FileEntry(tgt, c))

\* The tree after a successful shutil.copy2(src, dst): the target holds the
\* source's bytes, replacing what it held.
CopyTree(t, src, dst) ==
    LET tgt == CopyTarget(t, src, dst)
        new == FileEntry(tgt, EntryAt(t, Canon(t, src)).content)
    IN  IF Exists(t, tgt)
        THEN [i \in 1..Len(t) |-> IF t[i].path = tgt THEN new ELSE t[i]]
        ELSE Append(t, new)

\* The bytes of a target that two shutil.copy2 threads wrote at the same time:
\* each thread truncates the file and writes from offset 0 with no lock, so
\* the file can end as a mixture of the two sources.
Mixed == -1

MixTree(t, src, dst) ==
    LET tgt == CopyTarget(t, src, dst)
    IN  IF Exists(t, tgt)
        THEN [i \in 1..Len(t) |-> IF t[i].path = tgt THEN FileEntry(tgt, Mixed) ELSE t[i]]
        ELSE Append(t, FileEntry(tgt, Mixed))

\* is_within(child, parent): child.resolve() is parent.resolve() or below it.
is_within_never(t, child, parent) == FALSE

is_within(t, child, parent) == IsPrefix(Canon(t, parent), Canon(t, child))

----------------------------------------------------------------------------
\* The explored inputs: a tree, --source and --output.

TreeDisjoint ==
    << DirEntry(<<nS>>), FileEntry(<<nS, nATXT>>, 1), FileEntry(<<nS, nB>>, 2),
       DirEntry(<<nS, nU>>), FileEntry(<<nS, nU, nNotes>>, 3), DirEntry(<<nD>>) >>
TreeLocked ==
    << DirEntry(<<nS>>), FileEntry(<<nS, nATXT>>, 1), LockedFileEntry(<<nS, nB>>, 2),
       FileEntry(<<nS, nNotes>>, 3), DirEntry(<<nD>>) >>
TreeBucketTaken ==
    << DirEntry(<<nS>>), FileEntry(<<nS, nB>>, 2), FileEntry(<<nS, nATXT>>, 1),
       DirEntry(<<nD>>), FileEntry(<<nD, nNoExt>>, 7) >>
TreeCollision ==
    << DirEntry(<<nS>>), FileEntry(<<nS, nATXT>>, 1), DirEntry(<<nS, nU>>),
       FileEntry(<<nS, nU, nATXT>>, 2), DirEntry(<<nD>>) >>
TreeNested1 ==
    << DirEntry(<<nS>>), FileEntry(<<nS, nATXT>>, 1), DirEntry(<<nS, nO>>),
       FileEntry(<<nS, nO, nOld>>, 9), DirEntry(<<nS, nU>>),
       FileEntry(<<nS, nU, nB>>, 2) >>
TreeNested2 ==
    << DirEntry(<<nS>>), FileEntry(<<nS, nATXT>>, 1), DirEntry(<<nS, nU>>),
       FileEntry(<<nS, nU, nB>>, 2), DirEntry(<<nS, nU, nO>>),
       FileEntry(<<nS, nU, nO, nOld>>, 9) >>
TreeLinked ==
    << DirEntry(<<nS>>), FileEntry(<<nS, nATXT>>, 1),
       LinkEntry(<<nS, nL>>, <<nS, nO>>), DirEntry(<<nS, nO>>),
       FileEntry(<<nS, nO, nOld>>, 9) >>
TreeEqual ==
    << DirEntry(<<nS>>), FileEntry(<<nS, nATXT>>, 1) >>
TreeInside ==
    << DirEntry(<<nS>>), DirEntry(<<nS, nTxt>>), FileEntry(<<nS, nTxt, nNotes>>, 3),
       FileEntry(<<nS, nTxt, nB>>, 2), DirEntry(<<nS, nTxt, nO>>),
       FileEntry(<<nS, nTxt, nO, nOld>>, 9) >>
TreeLoop ==
    << DirEntry(<<nS>>), FileEntry(<<nS, nATXT>>, 1),
       LinkEntry(<<nS, nLoop>>, <<nS, nLoop>>), FileEntry(<<nS, nB>>, 2),
       DirEntry(<<nD>>) >>
TreeNoSource ==
    << DirEntry(<<nD>>) >>

Scenarios ==
    { [tree |-> TreeDisjoint,    source |-> <<nS>>,       output |-> <<nD>>],
      [tree |-> TreeLocked,      source |-> <<nS>>,       output |-> <<nD>>],
      [tree |-> TreeBucketTaken, source |-> <<nS>>,       output |-> <<nD>>],
      [tree |-> TreeCollision,   source |-> <<nS>>,       output |-> <<nD>>],
      [tree |-> TreeNested1,     source |-> <<nS>>,       output |-> <<nS, nO>>],
      [tree |-> TreeNested2,     source |-> <<nS>>,       output |-> <<nS, nU, nO>>],
      [tree |-> TreeLinked,      source |-> <<nS>>,       output |-> <<nS, nL>>],
      [tree |-> TreeEqual,       source |-> <<nS>>,       output |-> <<nS>>],
      [tree |-> TreeInside,      source |-> <<nS, nTxt>>, output |-> <<nS>>],
      [tree |-> TreeLoop,        source |-> <<nS>>,       output |-> <<nD>>],
      [tree |-> TreeNoSource,    source |-> <<nS>>,       output |-> <<nD>>],
      [tree |-> TreeEqual,       source |-> <<nS>>,       output |-> <<nS, nATXT>>] }


----------------------------------------------------------------------------
\* State.

VARIABLES
    tree,            \* the filesystem
    src_root,        \* args.source
    out_root,        \* args.output
    workers,         \* number of consumer tasks
    queue_size,      \* maxsize of the queue
    strict_loops,    \* Path.resolve() raises RuntimeError on a symlink loop
                     \* (Python up to 3.12) or returns the path (3.13 on)
    q,               \* the queue's items, oldest first
    unfinished,      \* the queue's count of items put and not yet task_done
    getters,         \* tasks suspended in q.get(), oldest first
    putters,         \* tasks suspended in q.put(), oldest first
    join_waiting,    \* main is suspended in q.join()
    gather_waiting,  \* main is suspended in asyncio.gather
    ready,           \* the event loop's ready list, next to run first
    running,         \* the task the event loop is running, or Idle
    mpc,             \* where main / read_folder is
    stack,           \* os.walk: directories still to visit, next first
    filenames,       \* files of the current directory still to put
    files_count,     \* read_folder's files_count
    markers_put,     \* iterations done of the loop that puts None
    outcome,         \* how main ended
    wpc,             \* where each consumer is
    item,            \* the path each consumer is copying
    wres,            \* result of the consumer's last executor call
    enq,             \* history: every item put, in order
    deq,             \* history: every item got, with the consumer, in order
    acked,           \* history: task_done calls of each consumer
    scanned,         \* history: directories os.walk has listed
    visited,         \* history: directories whose files the loop body put
    failed,          \* history: copies that failed and were logged
    raised,          \* history: consumers ended by an exception
    run,             \* which run of the program this is, 1 or 2
    first_tree       \* the filesystem as the first run left it

argVars == <<src_root, out_root, workers, queue_size, strict_loops>>
runVars == <<run, first_tree>>
queueVars == <<q, unfinished, getters, putters, join_waiting>>
walkVars == <<stack, filenames, files_count, markers_put>>
workerVars == <<wpc, item, wres>>
histVars == <<enq, deq, acked, scanned, visited, failed, raised>>
vars == <<tree, argVars, runVars, queueVars, gather_waiting, ready, running, mpc,
          walkVars, outcome, workerVars, histVars>>

\* The task of asyncio.run(main()); consumers are tasks 1..workers.
Main == 0
\* No task is running: the event loop is between callbacks.
Idle == -1

Consumers == 1..workers

\* The termination signal and a file task, as queue items.
NoPath == <<>>
None == [file |-> FALSE, path |-> NoPath]
FileTask(p) == [file |-> TRUE, path |-> p]

\* max(1, args.workers) and max(1, args.queue_size).
AtLeastOne(n) == IF n < 1 THEN 1 ELSE n

Init ==
    /\ \E sc \in Scenarios :
         /\ tree = sc.tree
         /\ src_root = sc.source
         /\ out_root = sc.output
    /\ \E w \in 0..MaxWorkers : workers = AtLeastOne(w)
    /\ \E n \in 0..MaxQueue : queue_size = AtLeastOne(n)
    /\ strict_loops \in BOOLEAN
    /\ q = <<>>
    /\ unfinished = 0
    /\ getters = <<>>
    /\ putters = <<>>
    /\ join_waiting = FALSE
    /\ gather_waiting = FALSE
    /\ ready = <<>>
    /\ running = Main
    /\ mpc = "main"
    /\ stack = <<>>
    /\ filenames = <<>>
    /\ files_count = 0
    /\ markers_put = 0
    /\ outcome = "running"
    /\ wpc = [w \in Consumers |-> "new"]
    /\ item = [w \in Consumers |-> NoPath]
    /\ wres = [w \in Consumers |-> "ok"]
    /\ enq = <<>>
    /\ deq = <<>>
    /\ acked = [w \in Consumers |-> 0]
    /\ scanned = {}
    /\ visited = {}
    /\ failed = {}
    /\ raised = {}
    /\ run = 1
    /\ first_tree = <<>>

----------------------------------------------------------------------------
\* asyncio.Queue.

\* Queue.full(): never full when maxsize <= 0.
QueueFullLate(items, maxsize) == maxsize > 0 /\ Len(items) > maxsize

QueueFull(items, maxsize) == maxsize > 0 /\ Len(items) >= maxsize

\* Queue.get_nowait(): what stays in the queue.
QueueRestKeep(items) == items

QueueRest(items) == Tail(items)

\* Queue._wakeup_next: the first waiter is made ready.
WakeFirst(waiters, r) == IF waiters # <<>> THEN Append(r, Head(waiters)) ELSE r
DropFirst(waiters) == IF waiters # <<>> THEN Tail(waiters) ELSE waiters

\* Queue.task_done(): when the count reaches zero the event is set and the
\* task waiting in join() is made ready.
TaskDoneReady(r) == IF unfinished = 1 /\ join_waiting THEN Append(r, Main) ELSE r
TaskDoneJoin == IF unfinished = 1 THEN FALSE ELSE join_waiting

\* Queue.join() suspends the caller only while items are unfinished.
JoinMustWaitNever(n) == FALSE

JoinMustWait(n) == n > 0

\* A consumer task has ended, by return or by exception.
Ended(w) == wpc[w] \in {"exit", "raised"}

\* asyncio.gather: when the last consumer ends, its waiter is made ready.
GatherReady(r, w) ==
    IF gather_waiting /\ \A v \in Consumers \ {w} : Ended(v)
    THEN Append(r, Main) ELSE r


----------------------------------------------------------------------------
\* main and read_folder (task Main).

\* A main whose source check logs the error and goes on to read_folder.
MainBadSourceGoesOn ==
    /\ running = Main /\ mpc = "main"
    /\ ~IsDir(tree, src_root)
    /\ outcome' = "no_source"
    /\ ready' = ready \o [i \in 1..workers |-> i]
    /\ wpc' = [w \in Consumers |-> "get"]
    /\ stack' = <<src_root>>
    /\ mpc' = "walk"
    /\ UNCHANGED <<tree, argVars, runVars, queueVars, gather_waiting, running,
                   filenames, files_count, markers_put, item, wres, histVars>>

\* main: the source is missing or is not a directory.
MainBadSource ==
    /\ running = Main /\ mpc = "main"
    /\ ~IsDir(tree, src_root)
    /\ mpc' = "exited"
    /\ outcome' = "no_source"
    /\ running' = Idle
    /\ UNCHANGED <<tree, argVars, runVars, queueVars, gather_waiting, ready, walkVars,
                   workerVars, histVars>>

\* main: out_root.mkdir(parents=True, exist_ok=True) raises.
MainBadOutput ==
    /\ running = Main /\ mpc = "main"
    /\ IsDir(tree, src_root)
    /\ MkdirFails(tree, out_root)
    /\ mpc' = "exited"
    /\ outcome' = "no_output"
    /\ running' = Idle
    /\ UNCHANGED <<tree, argVars, runVars, queueVars, gather_waiting, ready, walkVars,
                   workerVars, histVars>>

\* main: both checks pass; read_folder is called, creates the queue and the
\* consumer tasks, and starts os.walk(src_root).
CreateConsumers ==
    /\ running = Main /\ mpc = "main"
    /\ IsDir(tree, src_root)
    /\ ~MkdirFails(tree, out_root)
    /\ tree' = MkdirTree(tree, out_root)
    /\ ready' = ready \o [i \in 1..workers |-> i]
    /\ wpc' = [w \in Consumers |-> "get"]
    /\ stack' = <<src_root>>
    /\ mpc' = "walk"
    /\ UNCHANGED <<argVars, runVars, queueVars, gather_waiting, running, filenames,
                   files_count, markers_put, outcome, item, wres, histVars>>

\* The subdirectories read_folder leaves in dirnames: those not within out_root.
KeptDirs(top) ==
    SelectSeq(WalkDirNames(tree, top),
              LAMBDA d : ~is_within(tree, Append(top, d), out_root))

\* The directories os.walk goes on to: the kept ones that are not symbolic
\* links (followlinks is False).
Descend(top) ==
    LET kept == SelectSeq(KeptDirs(top), LAMBDA d : ~IsLink(tree, Append(top, d)))
    IN  [i \in 1..Len(kept) |-> Append(top, kept[i])]

\* read_folder's test for "this directory is out_root".
IsOutRoot(top) == Canon(tree, top) = Canon(tree, out_root)

\* os.walk yields out_root itself: dirnames.clear(); continue.
WalkSkip ==
    /\ running = Main /\ mpc = "walk"
    /\ stack # <<>>
    /\ IsOutRoot(Head(stack))
    /\ stack' = Tail(stack)
    /\ scanned' = scanned \cup {Canon(tree, Head(stack))}
    /\ UNCHANGED <<tree, argVars, runVars, queueVars, gather_waiting, ready, running, mpc,
                   filenames, files_count, markers_put, outcome, workerVars,
                   enq, deq, acked, visited, failed, raised>>

\* os.walk yields another directory: prune dirnames, then loop over filenames.
WalkEnter ==
    /\ running = Main /\ mpc = "walk"
    /\ stack # <<>>
    /\ ~IsOutRoot(Head(stack))
    /\ LET top == Head(stack)
           names == WalkFileNames(tree, top)
       IN  /\ filenames' = [i \in 1..Len(names) |-> Append(top, names[i])]
           /\ stack' = Descend(top) \o Tail(stack)
           /\ scanned' = scanned \cup {Canon(tree, top)}
           /\ visited' = visited \cup {Canon(tree, top)}
           /\ mpc' = IF names = <<>> THEN "walk" ELSE "put"
    /\ UNCHANGED <<tree, argVars, runVars, queueVars, gather_waiting, ready, running,
                   files_count, markers_put, outcome, workerVars,
                   enq, deq, acked, failed, raised>>

\* A put that gives the event loop a turn after queueing the item, as a
\* put followed by await asyncio.sleep(0) does.
PutFileYield ==
    /\ running = Main /\ mpc = "put"
    /\ ~QueueFull(q, queue_size)
    /\ q' = Append(q, FileTask(Head(filenames)))
    /\ enq' = Append(enq, FileTask(Head(filenames)))
    /\ unfinished' = unfinished + 1
    /\ ready' = Append(WakeFirst(getters, ready), Main)
    /\ running' = Idle
    /\ getters' = DropFirst(getters)
    /\ files_count' = files_count + 1
    /\ filenames' = Tail(filenames)
    /\ mpc' = IF Tail(filenames) = <<>> THEN "walk" ELSE "put"
    /\ UNCHANGED <<tree, argVars, runVars, putters, join_waiting, gather_waiting,
                   stack, markers_put, outcome, workerVars,
                   deq, acked, scanned, visited, failed, raised>>

\* A put on a queue that hands out its newest item first (LifoQueue).
PutFileFront ==
    /\ running = Main /\ mpc = "put"
    /\ ~QueueFull(q, queue_size)
    /\ q' = <<FileTask(Head(filenames))>> \o q
    /\ enq' = Append(enq, FileTask(Head(filenames)))
    /\ unfinished' = unfinished + 1
    /\ ready' = WakeFirst(getters, ready)
    /\ getters' = DropFirst(getters)
    /\ files_count' = files_count + 1
    /\ filenames' = Tail(filenames)
    /\ mpc' = IF Tail(filenames) = <<>> THEN "walk" ELSE "put"
    /\ UNCHANGED <<tree, argVars, runVars, putters, join_waiting, gather_waiting,
                   running, stack, markers_put, outcome, workerVars,
                   deq, acked, scanned, visited, failed, raised>>

\* await q.put(current / name), the queue not full: the item is queued without
\* suspending, and the first task waiting in get() is woken.
PutFile ==
    /\ running = Main /\ mpc = "put"
    /\ ~QueueFull(q, queue_size)
    /\ q' = Append(q, FileTask(Head(filenames)))
    /\ enq' = Append(enq, FileTask(Head(filenames)))
    /\ unfinished' = unfinished + 1
    /\ ready' = WakeFirst(getters, ready)
    /\ getters' = DropFirst(getters)
    /\ files_count' = files_count + 1
    /\ filenames' = Tail(filenames)
    /\ mpc' = IF Tail(filenames) = <<>> THEN "walk" ELSE "put"
    /\ UNCHANGED <<tree, argVars, runVars, putters, join_waiting, gather_waiting, running,
                   stack, markers_put, outcome, workerVars,
                   deq, acked, scanned, visited, failed, raised>>

\* await q.put(...), the queue full: main waits until a get() makes room.
PutFileBlock ==
    /\ running = Main /\ mpc = "put"
    /\ QueueFull(q, queue_size)
    /\ putters' = Append(putters, Main)
    /\ running' = Idle
    /\ UNCHANGED <<tree, argVars, runVars, q, unfinished, getters, join_waiting,
                   gather_waiting, ready, mpc, walkVars, outcome, workerVars,
                   histVars>>

\* The walk is over: await q.join().
Join ==
    /\ running = Main /\ mpc = "walk"
    /\ stack = <<>>
    /\ IF JoinMustWait(unfinished)
       THEN /\ join_waiting' = TRUE
            /\ running' = Idle
            /\ mpc' = "joined"
       ELSE /\ mpc' = "markers"
            /\ UNCHANGED <<join_waiting, running>>
    /\ UNCHANGED <<tree, argVars, runVars, q, unfinished, getters, putters, gather_waiting,
                   ready, walkVars, outcome, workerVars, histVars>>

\* q.join() returns to main.
JoinReturn ==
    /\ running = Main /\ mpc = "joined"
    /\ mpc' = "markers"
    /\ UNCHANGED <<tree, argVars, runVars, queueVars, gather_waiting, ready, running,
                   walkVars, outcome, workerVars, histVars>>

\* for _ in consumers: await q.put(None), the queue not full.
PutMarker ==
    /\ running = Main /\ mpc = "markers"
    /\ markers_put < workers
    /\ ~QueueFull(q, queue_size)
    /\ q' = Append(q, None)
    /\ enq' = Append(enq, None)
    /\ unfinished' = unfinished + 1
    /\ ready' = WakeFirst(getters, ready)
    /\ getters' = DropFirst(getters)
    /\ markers_put' = markers_put + 1
    /\ UNCHANGED <<tree, argVars, runVars, putters, join_waiting, gather_waiting, running,
                   mpc, stack, filenames, files_count, outcome, workerVars,
                   deq, acked, scanned, visited, failed, raised>>

\* await q.put(None), the queue full.
PutMarkerBlock ==
    /\ running = Main /\ mpc = "markers"
    /\ markers_put < workers
    /\ QueueFull(q, queue_size)
    /\ putters' = Append(putters, Main)
    /\ running' = Idle
    /\ UNCHANGED <<tree, argVars, runVars, q, unfinished, getters, join_waiting,
                   gather_waiting, ready, mpc, walkVars, outcome, workerVars,
                   histVars>>

\* await asyncio.gather(*consumers, return_exceptions=True): main waits until
\* every consumer task has ended.
Gather ==
    /\ running = Main /\ mpc = "markers"
    /\ markers_put = workers
    /\ mpc' = "gathering"
    /\ running' = Idle
    /\ IF \A w \in Consumers : Ended(w)
       THEN /\ ready' = Append(ready, Main)
            /\ UNCHANGED gather_waiting
       ELSE /\ gather_waiting' = TRUE
            /\ UNCHANGED ready
    /\ UNCHANGED <<tree, argVars, runVars, queueVars, walkVars, outcome, workerVars,
                   histVars>>

\* gather returns, read_folder returns, main logs that it is done.
ReadFolderReturn ==
    /\ running = Main /\ mpc = "gathering"
    /\ mpc' = "exited"
    /\ outcome' = "done"
    /\ running' = Idle
    /\ UNCHANGED <<tree, argVars, runVars, queueVars, gather_waiting, ready, walkVars,
                   workerVars, histVars>>

\* The event loop runs the next ready task.
RunNext ==
    /\ running = Idle
    /\ ready # <<>>
    /\ running' = Head(ready)
    /\ ready' = Tail(ready)
    /\ UNCHANGED <<tree, argVars, runVars, queueVars, gather_waiting, mpc, walkVars,
                   outcome, workerVars, histVars>>


----------------------------------------------------------------------------
\* _consumer and copy_file (tasks 1..workers).

\* copy_file: dst_dir and dst_file of a source path.
DstDir(src) == Append(out_root, ext_bucket(Name(src)))
DstFile(src) == Append(DstDir(src), Name(src))

\* copy_file's comparison src.resolve() == dst_file.resolve() raises: one of
\* the two paths leads through a symbolic link loop and resolve() is strict
\* about loops.
ResolveRaises(src) ==
    strict_loops /\ (HasLoop(tree, src) \/ HasLoop(tree, DstFile(src)))

\* A copy_file without the guard.
SameFileNever(src) == FALSE

\* copy_file's guard against copying a file onto itself.
SameFile(src) == Canon(tree, src) = Canon(tree, DstFile(src))

\* item = await q.get(), the queue empty: the consumer waits for a put.
GetBlock(w) ==
    /\ running = w /\ wpc[w] = "get"
    /\ q = <<>>
    /\ getters' = Append(getters, w)
    /\ running' = Idle
    /\ UNCHANGED <<tree, argVars, runVars, q, unfinished, putters, join_waiting,
                   gather_waiting, ready, mpc, walkVars, outcome, workerVars,
                   histVars>>

\* get() returns None: task_done(), break; the consumer task ends.
GetMarker(w) ==
    /\ running = w /\ wpc[w] = "get"
    /\ q # <<>> /\ Head(q) = None
    /\ q' = QueueRest(q)
    /\ putters' = DropFirst(putters)
    /\ deq' = Append(deq, [by |-> w, item |-> Head(q)])
    /\ unfinished' = unfinished - 1
    /\ acked' = [acked EXCEPT ![w] = @ + 1]
    /\ join_waiting' = TaskDoneJoin
    /\ wpc' = [wpc EXCEPT ![w] = "exit"]
    /\ ready' = GatherReady(TaskDoneReady(WakeFirst(putters, ready)), w)
    /\ running' = Idle
    /\ UNCHANGED <<tree, argVars, runVars, getters, gather_waiting, mpc, walkVars, outcome,
                   item, wres, enq, scanned, visited, failed, raised>>

\* get() returns a path whose resolve() raises in copy_file, outside its try:
\* the finally clause calls task_done() and the exception ends the consumer.
GetRaise(w) ==
    /\ running = w /\ wpc[w] = "get"
    /\ q # <<>> /\ Head(q) # None
    /\ ResolveRaises(Head(q).path)
    /\ q' = QueueRest(q)
    /\ putters' = DropFirst(putters)
    /\ deq' = Append(deq, [by |-> w, item |-> Head(q)])
    /\ unfinished' = unfinished - 1
    /\ acked' = [acked EXCEPT ![w] = @ + 1]
    /\ join_waiting' = TaskDoneJoin
    /\ wpc' = [wpc EXCEPT ![w] = "raised"]
    /\ raised' = raised \cup {[by |-> w, path |-> Head(q).path]}
    /\ ready' = GatherReady(TaskDoneReady(WakeFirst(putters, ready)), w)
    /\ running' = Idle
    /\ UNCHANGED <<tree, argVars, runVars, getters, gather_waiting, mpc, walkVars, outcome,
                   item, wres, enq, scanned, visited, failed>>

\* get() returns a path that is its own destination: copy_file returns at
\* once, task_done(), and the consumer goes on to the next get().
GetSkip(w) ==
    /\ running = w /\ wpc[w] = "get"
    /\ q # <<>> /\ Head(q) # None
    /\ ~ResolveRaises(Head(q).path)
    /\ SameFile(Head(q).path)
    /\ q' = QueueRest(q)
    /\ putters' = DropFirst(putters)
    /\ deq' = Append(deq, [by |-> w, item |-> Head(q)])
    /\ unfinished' = unfinished - 1
    /\ acked' = [acked EXCEPT ![w] = @ + 1]
    /\ join_waiting' = TaskDoneJoin
    /\ ready' = TaskDoneReady(WakeFirst(putters, ready))
    /\ UNCHANGED <<tree, argVars, runVars, getters, gather_waiting, running, mpc, walkVars,
                   outcome, workerVars, enq, scanned, visited, failed, raised>>

\* get() returns a path to copy: copy_file hands dst_dir.mkdir to a thread
\* and the consumer waits for it.
GetCopy(w) ==
    /\ running = w /\ wpc[w] = "get"
    /\ q # <<>> /\ Head(q) # None
    /\ ~ResolveRaises(Head(q).path)
    /\ ~SameFile(Head(q).path)
    /\ q' = QueueRest(q)
    /\ putters' = DropFirst(putters)
    /\ deq' = Append(deq, [by |-> w, item |-> Head(q)])
    /\ item' = [item EXCEPT ![w] = Head(q).path]
    /\ wpc' = [wpc EXCEPT ![w] = "mkdir"]
    /\ ready' = WakeFirst(putters, ready)
    /\ running' = Idle
    /\ UNCHANGED <<tree, argVars, runVars, unfinished, getters, join_waiting,
                   gather_waiting, mpc, walkVars, outcome, wres,
                   enq, acked, scanned, visited, failed, raised>>

\* The thread running dst_dir.mkdir(parents=True, exist_ok=True) finishes.
MkdirThread(w) ==
    /\ wpc[w] = "mkdir"
    /\ IF MkdirFails(tree, DstDir(item[w]))
       THEN /\ wres' = [wres EXCEPT ![w] = "err"]
            /\ UNCHANGED tree
       ELSE /\ wres' = [wres EXCEPT ![w] = "ok"]
            /\ tree' = MkdirTree(tree, DstDir(item[w]))
    /\ wpc' = [wpc EXCEPT ![w] = "mkdir_done"]
    /\ ready' = Append(ready, w)
    /\ UNCHANGED <<argVars, runVars, queueVars, gather_waiting, running, mpc, walkVars,
                   outcome, item, histVars>>

\* mkdir succeeded: copy_file awaits aioshutil.copy2(src, dst_file).
MkdirOk(w) ==
    /\ running = w /\ wpc[w] = "mkdir_done"
    /\ wres[w] = "ok"
    /\ wpc' = [wpc EXCEPT ![w] = "copy"]
    /\ running' = Idle
    /\ UNCHANGED <<tree, argVars, runVars, queueVars, gather_waiting, ready, mpc, walkVars,
                   outcome, item, wres, histVars>>

\* mkdir raised: copy_file's except clause logs it; task_done(); next get().
MkdirFailed(w) ==
    /\ running = w /\ wpc[w] = "mkdir_done"
    /\ wres[w] # "ok"
    /\ failed' = failed \cup {[path |-> item[w], error |-> wres[w]]}
    /\ unfinished' = unfinished - 1
    /\ acked' = [acked EXCEPT ![w] = @ + 1]
    /\ join_waiting' = TaskDoneJoin
    /\ ready' = TaskDoneReady(ready)
    /\ wpc' = [wpc EXCEPT ![w] = "get"]
    /\ UNCHANGED <<tree, argVars, runVars, q, getters, putters, gather_waiting, running,
                   mpc, walkVars, outcome, item, wres,
                   enq, deq, scanned, visited, raised>>

\* The consumers whose copy2 thread is writing the target of w's thread.
Racing(w) ==
    {v \in Consumers \ {w} :
        /\ wpc[v] = "copy"
        /\ CopyResult(tree, item[v], DstFile(item[v])) = "ok"
        /\ CopyTarget(tree, item[v], DstFile(item[v]))
             = CopyTarget(tree, item[w], DstFile(item[w]))}

\* The thread running shutil.copy2(src, dst_file) finishes.  While it ran,
\* wres[w] = "raced" records that another thread finished writing the same
\* target; a target written by two threads at once holds either the bytes of
\* this source or a mixture.
CopyThread(w) ==
    /\ wpc[w] = "copy"
    /\ wres' = [v \in Consumers |->
                  IF v = w THEN CopyResult(tree, item[w], DstFile(item[w]))
                  ELSE IF v \in Racing(w) THEN "raced" ELSE wres[v]]
    /\ IF CopyResult(tree, item[w], DstFile(item[w])) # "ok"
       THEN tree' = tree
       ELSE IF Racing(w) = {} /\ wres[w] # "raced"
       THEN tree' = CopyTree(tree, item[w], DstFile(item[w]))
       ELSE tree' \in {CopyTree(tree, item[w], DstFile(item[w])),
                       MixTree(tree, item[w], DstFile(item[w]))}
    /\ wpc' = [wpc EXCEPT ![w] = "copy_done"]
    /\ ready' = Append(ready, w)
    /\ UNCHANGED <<argVars, runVars, queueVars, gather_waiting, running, mpc, walkVars,
                   outcome, item, histVars>>

\* A copy_file without its except clauses: a failed copy2 ends the consumer.
CopyReturnUncaught(w) ==
    /\ running = w /\ wpc[w] = "copy_done"
    /\ unfinished' = unfinished - 1
    /\ acked' = [acked EXCEPT ![w] = @ + 1]
    /\ join_waiting' = TaskDoneJoin
    /\ IF wres[w] = "ok"
       THEN /\ ready' = TaskDoneReady(ready)
            /\ wpc' = [wpc EXCEPT ![w] = "get"]
            /\ UNCHANGED <<running, raised>>
       ELSE /\ ready' = GatherReady(TaskDoneReady(ready), w)
            /\ wpc' = [wpc EXCEPT ![w] = "raised"]
            /\ raised' = raised \cup {[by |-> w, path |-> item[w]]}
            /\ running' = Idle
    /\ UNCHANGED <<tree, argVars, runVars, q, getters, putters, gather_waiting,
                   mpc, walkVars, outcome, item, wres,
                   enq, deq, scanned, visited, failed>>

\* What copy_file's except clauses leave of a failed copy: a log record.
Logged(w) == {[path |-> item[w], error |-> wres[w]]}

\* copy2 returned or raised: copy_file logs the copy or the error and
\* returns; task_done(); next get().
CopyReturn(w) ==
    /\ running = w /\ wpc[w] = "copy_done"
    /\ failed' = IF wres[w] = "ok" THEN failed ELSE failed \cup Logged(w)
    /\ unfinished' = unfinished - 1
    /\ acked' = [acked EXCEPT ![w] = @ + 1]
    /\ join_waiting' = TaskDoneJoin
    /\ ready' = TaskDoneReady(ready)
    /\ wpc' = [wpc EXCEPT ![w] = "get"]
    /\ UNCHANGED <<tree, argVars, runVars, q, getters, putters, gather_waiting, running,
                   mpc, walkVars, outcome, item, wres,
                   enq, deq, scanned, visited, raised>>

----------------------------------------------------------------------------

Next ==
    \/ MainBadSource
    \/ MainBadOutput
    \/ CreateConsumers
    \/ WalkSkip
    \/ WalkEnter
    \/ PutFile
    \/ PutFileBlock
    \/ Join
    \/ JoinReturn
    \/ PutMarker
    \/ PutMarkerBlock
    \/ Gather
    \/ ReadFolderReturn
    \/ RunNext
    \/ \E w \in Consumers : GetBlock(w)
    \/ \E w \in Consumers : GetMarker(w)
    \/ \E w \in Consumers : GetRaise(w)
    \/ \E w \in Consumers : GetSkip(w)
    \/ \E w \in Consumers : GetCopy(w)
    \/ \E w \in Consumers : MkdirThread(w)
    \/ \E w \in Consumers : MkdirOk(w)
    \/ \E w \in Consumers : MkdirFailed(w)
    \/ \E w \in Consumers : CopyThread(w)
    \/ \E w \in Consumers : CopyReturn(w)

Spec == Init /\ [][Next]_vars

----------------------------------------------------------------------------
\* The process's result.  main has four ways out: the bare return after each
\* of its three error logs and the end of its body after the final log.  Each
\* hands None to asyncio.run, whose value the script drops, so the interpreter
\* exits with status 0 on all four.
MainReturns(o) ==
    CASE o = "no_source" -> "None"
      [] o = "no_output" -> "None"
      [] o = "failed"    -> "None"
      [] o = "done"      -> "None"

ExitStatus(o) == IF MainReturns(o) = "None" THEN 0 ELSE 1

----------------------------------------------------------------------------
\* A walk that raises.  read_folder has no try around its for loop: an
\* exception of os.walk (RecursionError on a tree deeper than the recursion
\* limit, Python up to 3.11) or of a resolve() in the loop body leaves
\* read_folder at once; main's except clause logs it and returns.

\* The callback that stops the event loop when main's task is done, as an
\* entry of the ready list; once it runs, asyncio.run cancels what is left.
Closing == -2

WalkRaise ==
    /\ running = Main /\ mpc = "walk"
    /\ stack # <<>>
    /\ mpc' = "exited"
    /\ outcome' = "failed"
    /\ ready' = Append(ready, Closing)
    /\ running' = Idle
    /\ UNCHANGED <<tree, argVars, runVars, queueVars, gather_waiting, walkVars,
                   workerVars, histVars>>

\* asyncio.run cancels a consumer: one waiting in get() just ends; one inside
\* copy_file gets CancelledError at its await, which no except clause of
\* copy_file catches, and _consumer's finally calls task_done().
Cancel(w) ==
    /\ running = Closing
    /\ wpc[w] \in {"get", "mkdir_done", "copy_done"}
    /\ wpc' = [wpc EXCEPT ![w] = "cancelled"]
    /\ getters' = SelectSeq(getters, LAMBDA v : v # w)
    /\ ready' = SelectSeq(ready, LAMBDA v : v # w)
    /\ IF wpc[w] = "get"
       THEN UNCHANGED <<unfinished, acked>>
       ELSE /\ unfinished' = unfinished - 1
            /\ acked' = [acked EXCEPT ![w] = @ + 1]
    /\ UNCHANGED <<tree, argVars, runVars, q, putters, join_waiting, gather_waiting,
                   running, mpc, walkVars, outcome, item, wres,
                   enq, deq, scanned, visited, failed, raised>>

NextFail ==
    \/ Next
    \/ WalkRaise
    \/ \E w \in Consumers : Cancel(w)

SpecFail == Init /\ [][NextFail]_vars

----------------------------------------------------------------------------
\* The program run a second time, with the same arguments, on the filesystem
\* the first run left.  asyncio.run returns once main has returned and the
\* executor's threads have finished; the new process starts from scratch.
Rerun ==
    /\ run = 1
    /\ mpc = "exited" /\ running = Idle
    /\ \A w \in Consumers : wpc[w] \notin {"mkdir", "copy"}
    /\ run' = 2
    /\ first_tree' = tree
    /\ q' = <<>>
    /\ unfinished' = 0
    /\ getters' = <<>>
    /\ putters' = <<>>
    /\ join_waiting' = FALSE
    /\ gather_waiting' = FALSE
    /\ ready' = <<>>
    /\ running' = Main
    /\ mpc' = "main"
    /\ stack' = <<>>
    /\ filenames' = <<>>
    /\ files_count' = 0
    /\ markers_put' = 0
    /\ outcome' = "running"
    /\ wpc' = [w \in Consumers |-> "new"]
    /\ item' = [w \in Consumers |-> NoPath]
    /\ wres' = [w \in Consumers |-> "ok"]
    /\ enq' = <<>>
    /\ deq' = <<>>
    /\ acked' = [w \in Consumers |-> 0]
    /\ scanned' = {}
    /\ visited' = {}
    /\ failed' = {}
    /\ raised' = {}
    /\ UNCHANGED <<tree, argVars>>

NextTwice ==
    \/ Next
    \/ Rerun

SpecTwice == Init /\ [][NextTwice]_vars


----------------------------------------------------------------------------
\* Vocabulary of the properties.

\* The file tasks put so far, and the paths got so far.
EnqFiles == {enq[i].path : i \in {k \in 1..Len(enq) : enq[k].file}}
GetsOf(x) == {j \in 1..Len(deq) : deq[j].item = x}
MarkersPut == Cardinality({i \in 1..Len(enq) : enq[i] = None})
MarkersGotBy(w) == Cardinality({j \in 1..Len(deq) : deq[j].item = None /\ deq[j].by = w})

\* A directory or file path lies at or below the destination root.
InDestination(p) == IsPrefix(Canon(tree, out_root), Canon(tree, p))
\* The regular files below the source root and outside the destination.
SourceFiles ==
    {e.path : e \in {x \in Range(tree) :
        /\ x.kind = "file"
        /\ IsPrefix(Canon(tree, src_root), x.path)
        /\ ~IsPrefix(Canon(tree, out_root), x.path)}}

\* The bucket each explored file name belongs in: its extension in lower
\* case without the dot, no_ext when there is none.
BucketOfName(n) ==
    IF n = nATXT THEN <<"t","x","t">>
    ELSE IF n = nNotes THEN <<"t","x","t">>
    ELSE IF n = nOld THEN <<"t","x","t">>
    ELSE <<"n","o","_","e","x","t">>
PlaceOf(p) == Canon(tree, Append(Append(out_root, BucketOfName(Name(p))), Name(p)))

\* read_folder has returned to main.
Returned == outcome = "done"
\* A consumer is between get() and task_done() of a file task.
Holding(w) == wpc[w] \in {"mkdir", "mkdir_done", "copy", "copy_done"}
\* Nothing can run any more: no task is running or ready, no thread is out.
Quiet == running = Idle /\ ready = <<>> /\ \A w \in Consumers : wpc[w] \notin {"mkdir", "copy"}
\* No path of the run makes resolve() raise.
ResolveSafe == ~(strict_loops /\ \E e \in Range(tree) : IsLoop(tree, e.path))

----------------------------------------------------------------------------
\* C1: when read_folder returns and no copy failed, every file below the
\* source root and outside the destination root exists at
\* <destination>/<bucket>/<name>, the bucket being the lowercased extension
\* without the dot, or no_ext.
C1_FilesLandInBuckets ==
    (Returned /\ failed = {} /\ raised = {}) =>
        \A p \in SourceFiles : KindAt(tree, PlaceOf(p)) = "file"

C1_Witness ==
    /\ Returned /\ failed = {} /\ raised = {}
    /\ workers = 2 /\ queue_size = 1
    /\ SourceFiles = {<<nS, nATXT>>, <<nS, nB>>, <<nS, nU, nNotes>>}
    /\ KindAt(tree, <<nD, nTxt, nATXT>>) = "file"
    /\ KindAt(tree, <<nD, nNoExt, nB>>) = "file"
    /\ KindAt(tree, <<nD, nTxt, nNotes>>) = "file"

\* C2: for every placement of source and destination, the walker never puts
\* a file from, and never loops over the files of, a directory that is the
\* destination root or lies inside it.
C2_WalkerAvoidsDestination ==
    /\ \A p \in EnqFiles : ~InDestination(Parent(p))
    /\ \A d \in visited : ~InDestination(d)

\* C3: when the destination root is a proper descendant of the source root,
\* os.walk never lists the destination or anything below it, and no file
\* below the destination is ever put on the queue.
C3_NestedDestinationPruned ==
    (Canon(tree, src_root) # Canon(tree, out_root)
        /\ IsPrefix(Canon(tree, src_root), Canon(tree, out_root))) =>
        /\ \A d \in scanned : ~InDestination(d)
        /\ \A p \in EnqFiles : ~InDestination(p)

C3_Witness ==
    /\ Returned
    /\ src_root = <<nS>> /\ out_root = <<nS, nU, nO>>
    /\ KindAt(tree, <<nS, nU, nO, nOld>>) = "file"
    /\ EnqFiles = {<<nS, nATXT>>, <<nS, nU, nB>>}
    /\ scanned = {<<nS>>, <<nS, nU>>}

\* C4: no file task is got twice, and when read_folder returns every file
\* task put has been got, and so passed to copy_file, exactly once.
C4_EachTaskOnce ==
    \A p \in EnqFiles :
        /\ Cardinality(GetsOf(FileTask(p))) <= 1
        /\ Returned => Cardinality(GetsOf(FileTask(p))) = 1

C4_Witness ==
    /\ Returned
    /\ Cardinality(EnqFiles) = 3
    /\ \E i, j \in 1..Len(deq) :
         deq[i].item.file /\ deq[j].item.file /\ deq[i].by # deq[j].by

\* C5: the pipeline never ends up with nothing left to run before
\* read_folder has returned and every consumer has ended: neither the
\* producer nor a consumer is blocked forever.
C5_NeverStuck ==
    Quiet => /\ mpc = "exited"
             /\ Returned => \A w \in Consumers : Ended(w)

\* C6: the queue never holds more entries than the capacity given to
\* read_folder.
C6_QueueBounded == Len(q) <= queue_size

C6_Witness ==
    /\ Len(q) = queue_size
    /\ putters = <<Main>>
    /\ mpc = "markers" /\ q[1] = None

\* C7: once q.join() has returned, no file task is in the queue, none is
\* held by a consumer that has not called task_done, and every file task
\* put has been got.
C7_JoinReturnsDrained ==
    (mpc \in {"markers", "gathering"} \/ Returned) =>
        /\ \A i \in 1..Len(q) : ~q[i].file
        /\ \A w \in Consumers : ~Holding(w)
        /\ \A p \in EnqFiles : GetsOf(FileTask(p)) # {}

C7_Witness ==
    /\ mpc = "markers" /\ markers_put = 0
    /\ files_count = 3 /\ workers = 2
    /\ acked[1] + acked[2] = 3

\* C8: when read_folder returns, exactly N markers have been put, each
\* consumer has got exactly one and ended on it, and none is left in the
\* queue.
C8_OneMarkerEach ==
    Returned =>
        /\ MarkersPut = workers
        /\ \A w \in Consumers : MarkersGotBy(w) = 1 /\ wpc[w] = "exit"
        /\ q = <<>>

\* C9: when the only failures of a run are errors of mkdir or of the copy,
\* no consumer is ended by them, the run does not get stuck, and when it
\* ends it ends done, with every consumer ended on its marker, the queue
\* drained, and every file put whose copy did not fail copied to its place.
C9_CopyFailureIsLocal ==
    ResolveSafe =>
        /\ \A w \in Consumers : wpc[w] # "raised"
        /\ Quiet => mpc = "exited"
        /\ (mpc = "exited" /\ IsDir(tree, src_root) /\ IsDir(tree, out_root))
             => Returned
        /\ Returned =>
             /\ \A w \in Consumers : wpc[w] = "exit"
             /\ q = <<>> /\ unfinished = 0
             /\ \A p \in EnqFiles :
                  (\A x \in failed : x.path # p) => KindAt(tree, PlaceOf(p)) = "file"

C9_Witness ==
    /\ Returned /\ workers = 1
    /\ failed = {[path |-> <<nS, nB>>, error |-> "perm"]}
    /\ deq[2].item = FileTask(<<nS, nB>>) /\ deq[3].item = FileTask(<<nS, nNotes>>)
    /\ KindAt(tree, <<nD, nTxt, nATXT>>) = "file"
    /\ KindAt(tree, <<nD, nTxt, nNotes>>) = "file"
    /\ ~Exists(tree, <<nD, nNoExt, nB>>)

\* C10: no failure inside copy_file reaches the consumer loop: a consumer
\* task ends only by getting a termination marker.
C10_ConsumerEndsOnlyOnMarker ==
    \A w \in Consumers :
        Ended(w) => /\ wpc[w] = "exit"
                    /\ MarkersGotBy(w) = 1

----------------------------------------------------------------------------
\* C11: when the walk fails after the consumers were started, main reports
\* the failure, and by the time main has returned read_folder has still put
\* one termination marker per consumer and every consumer has left its loop
\* on a marker, none being left waiting in get().
C11_FailedWalkStillShutsDown ==
    (mpc = "exited" /\ outcome = "failed")
        => /\ MarkersPut = workers
           /\ \A w \in Consumers : wpc[w] = "exit" /\ MarkersGotBy(w) = 1

----------------------------------------------------------------------------
\* C12: when the source is missing or is not a directory, or the destination
\* cannot be created, main ends with no consumer task created, nothing ever
\* put in the queue or taken from it, no directory listed, and the filesystem
\* exactly as the run found it.
C12_PreconditionAbortsBeforeWork ==
    (run = 1 /\ outcome \in {"no_source", "no_output"})
        => /\ mpc = "exited"
           /\ \A w \in Consumers : wpc[w] = "new"
           /\ ready = <<>> /\ getters = <<>>
           /\ q = <<>> /\ unfinished = 0
           /\ enq = <<>> /\ deq = <<>>
           /\ scanned = {} /\ files_count = 0
           /\ \E sc \in Scenarios :
                sc.source = src_root /\ sc.output = out_root /\ sc.tree = tree

\* main has ended because the destination could not be created, the source
\* being a directory with a file in it.
C12_Witness ==
    /\ outcome = "no_output" /\ mpc = "exited"
    /\ IsDir(tree, src_root)
    /\ KindAt(tree, <<nS, nATXT>>) = "file"
    /\ workers = 2

----------------------------------------------------------------------------
\* C13: a run that main ends on a failed precondition or on a failed walk
\* ends with a result that differs from the result of a run that completed;
\* only a completed run ends with the result of success.
C13_FailureIsSignalled ==
    mpc = "exited"
        => /\ MainReturns(outcome) = MainReturns("done") <=> outcome = "done"
           /\ ExitStatus(outcome) = ExitStatus("done") <=> outcome = "done"

----------------------------------------------------------------------------
\* The entries of a tree that lie in the destination.
DestinationOf(t) == {e \in Range(t) : IsPrefix(Canon(t, out_root), e.path)}

\* Two files of this run's queue have the same target.
Collision == \E p, r \in EnqFiles : p # r /\ PlaceOf(p) = PlaceOf(r)

----------------------------------------------------------------------------
\* C15: the items leave the queue in exactly the order in which they were
\* put, whichever consumers take them: the k-th item got is the k-th item put.
C15_Fifo ==
    /\ Len(deq) <= Len(enq)
    /\ \A k \in 1..Len(deq) : deq[k].item = enq[k]
    /\ q = SubSeq(enq, Len(deq) + 1, Len(enq))

\* Three files and two markers have been got in the order of their puts, the
\* files by more than one consumer, two of them having waited in the queue
\* together.
C15_Witness ==
    /\ Returned
    /\ workers = 2 /\ queue_size >= 2
    /\ Len(deq) = 5
    /\ \A k \in 1..3 : deq[k].item.file
    /\ deq[1].by # deq[2].by
    /\ deq[1].item # deq[2].item

----------------------------------------------------------------------------
\* A file task is in the queue, or a consumer has got one and has not yet
\* called task_done for it.
FileOutstanding ==
    \/ \E i \in 1..Len(q) : q[i].file
    \/ \E w \in Consumers : Holding(w)

----------------------------------------------------------------------------
\* The task_done calls of consumers 1..n, and the gets of one consumer.
RECURSIVE AckedUpTo(_)
AckedUpTo(n) == IF n = 0 THEN 0 ELSE acked[n] + AckedUpTo(n - 1)

GotBy(w) == Cardinality({j \in 1..Len(deq) : deq[j].by = w})

\* Every item a consumer got has been acknowledged by it exactly once, the
\* item it is working on excepted.
AckedOncePerGet ==
    \A w \in Consumers : acked[w] = GotBy(w) - (IF Holding(w) THEN 1 ELSE 0)

\* The acknowledgements never exceed the puts, and the queue's count of
\* unfinished items is their difference.
AcksWithinPuts ==
    /\ AckedUpTo(workers) <= Len(enq)
    /\ unfinished = Len(enq) - AckedUpTo(workers)
    /\ unfinished >= 0

\* C17: every item a consumer gets, file or marker, is acknowledged with
\* task_done exactly once by that consumer; the acknowledgements never exceed
\* the puts, the count of unfinished items is never negative, and it is zero
\* when read_folder returns.
C17_AckAccounting ==
    /\ AckedOncePerGet
    /\ AcksWithinPuts
    /\ Returned => unfinished = 0

----------------------------------------------------------------------------
\* The bytes of a source file, and the bytes its target holds.
ContentOf(p) == EntryAt(tree, Canon(tree, p)).content
TargetContent(p) == EntryAt(tree, PlaceOf(p)).content

\* Positions i < j of the put history hold two different files with the same
\* target, j being the last put for that target.
CollidingPuts ==
    {ij \in (1..Len(enq)) \X (1..Len(enq)) :
        /\ ij[1] < ij[2]
        /\ enq[ij[1]].file /\ enq[ij[2]].file
        /\ enq[ij[1]].path # enq[ij[2]].path
        /\ PlaceOf(enq[ij[1]].path) = PlaceOf(enq[ij[2]].path)
        /\ \A k \in (ij[2] + 1)..Len(enq) :
             enq[k].file => PlaceOf(enq[k].path) # PlaceOf(enq[ij[2]].path)}

\* C18 as stated: when two source files of different subdirectories have the
\* same bucket and base name, after the run the target holds the content of
\* the one put in the queue later, for every number of consumers and every
\* interleaving.
C18_LaterPutWins ==
    (Returned /\ failed = {})
        => \A ij \in CollidingPuts :
             /\ KindAt(tree, PlaceOf(enq[ij[2]].path)) = "file"
             /\ TargetContent(enq[ij[2]].path) = ContentOf(enq[ij[2]].path)

\* C18 amended: with one consumer the target holds the content of the file
\* put later; with more consumers the two copies run in separate threads and
\* the target holds the content of either file, or a mixture of both when
\* the two threads wrote at the same time.
C18_LaterPutWinsAlone ==
    (Returned /\ failed = {})
        => \A ij \in CollidingPuts :
             /\ KindAt(tree, PlaceOf(enq[ij[2]].path)) = "file"
             /\ workers = 1
                  => TargetContent(enq[ij[2]].path) = ContentOf(enq[ij[2]].path)
             /\ TargetContent(enq[ij[2]].path)
                  \in {ContentOf(enq[ij[1]].path), ContentOf(enq[ij[2]].path), Mixed}

\* One consumer has copied s/a.TXT and then s/u/a.TXT onto d/txt/a.TXT, which
\* holds the bytes of the second.
C18_Witness ==
    /\ Returned /\ failed = {}
    /\ workers = 1
    /\ CollidingPuts = {<<1, 2>>}
    /\ enq[1].path = <<nS, nATXT>> /\ enq[2].path = <<nS, nU, nATXT>>
    /\ ContentOf(enq[1].path) # ContentOf(enq[2].path)
    /\ TargetContent(enq[2].path) = ContentOf(enq[2].path)

----------------------------------------------------------------------------
\* The file at the head of the queue is its own target.
HeadIsOwnTarget ==
    /\ q # <<>> /\ Head(q).file
    /\ Canon(tree, Head(q).path) = PlaceOf(Head(q).path)

\* C19: copy_file never writes to a target whose canonical path is that of
\* its source.  No consumer is ever inside a copy of a file onto itself; the
\* step in which a consumer gets such a file changes nothing in the
\* filesystem (no directory made, nothing copied, the source as it was),
\* acknowledges the task and leaves the consumer ready for its next get.
C19_SelfCopySkipped ==
    /\ [](\A w \in Consumers :
            Holding(w) => Canon(tree, item[w]) # PlaceOf(item[w]))
    /\ [][\A w \in Consumers :
            (HeadIsOwnTarget /\ deq' = Append(deq, [by |-> w, item |-> Head(q)]))
                => /\ tree' = tree
                   /\ wpc'[w] = "get"
                   /\ acked'[w] = acked[w] + 1
                   /\ unfinished' = unfinished - 1]_vars

\* The run with the source s/txt inside the destination s has returned:
\* s/txt/notes.txt, its own target, was got and acknowledged, and holds the
\* bytes it held.
C19_Witness ==
    /\ Returned
    /\ src_root = <<nS, nTxt>> /\ out_root = <<nS>>
    /\ PlaceOf(<<nS, nTxt, nNotes>>) = <<nS, nTxt, nNotes>>
    /\ \E j \in 1..Len(deq) :
         /\ deq[j].item = FileTask(<<nS, nTxt, nNotes>>)
         /\ acked[deq[j].by] >= 2
    /\ ContentOf(<<nS, nTxt, nNotes>>) = 3
    /\ unfinished = 0

----------------------------------------------------------------------------
\* read_folder is still walking the source: it has not reached q.join().
Walking == mpc \in {"walk", "put"}

\* C20: all the consumer tasks are created before the first file is put, but
\* none gets an item before main suspends, in a put on a full queue or in
\* join.  So while main has not suspended every consumer is a created task
\* that has not run, and a get during the walk means the files exceed the
\* queue's capacity: when they do not, all files are put before any copy
\* starts.
C20_ConsumersWaitForProducer ==
    /\ enq # <<>> => \A w \in Consumers : wpc[w] # "new"
    /\ (Walking /\ files_count + Len(filenames) <= queue_size)
         => /\ deq = <<>>
            /\ running = Main
            /\ \A w \in Consumers : wpc[w] = "get" /\ ~Holding(w)
            /\ ready = [i \in 1..workers |-> i]
            /\ tree = MkdirTree(tree, out_root)
    /\ (deq # <<>> /\ files_count <= queue_size /\ ~Walking)
         => /\ mpc \in {"joined", "markers", "gathering", "exited"}
            /\ Len(SelectSeq(enq, LAMBDA x : x.file)) = files_count

\* Three files fit the queue of three: main has put them all and waits in
\* join, and only now has a consumer got the first.
C20_Witness ==
    /\ workers = 3 /\ queue_size = 3
    /\ files_count = 3 /\ Len(enq) = 3
    /\ mpc = "joined" /\ join_waiting
    /\ Len(deq) = 1
    /\ \E w \in Consumers : wpc[w] = "mkdir"

============================================================================
